---- MODULE Spec2Model ----
(***************************************************************************)
(* Model of the nimble authoritative step server (nimble-server-lib):      *)
(* server.c, req_step.c, transport_connection.c and the collaborators they *)
(* call.  One NimbleServer (`self`) is driven by its public calls.  The    *)
(* server is single threaded, so every call is one atomic action.          *)
(*                                                                         *)
(* 32-bit unsigned values (StepId) are kept as their two's-complement bit  *)
(* pattern: 0xFFFFFFFF is -1, and unsigned order is ULess/ULessEq.         *)
(***************************************************************************)
EXTENDS Integers, Sequences, FiniteSets, TLC

VARIABLES
    self,       \* the NimbleServer aggregate
    last,       \* what the most recent call did and returned (its log lines)
    observed,   \* per slot: nextAuthoritativeStepIdToSend at its latest step-range reply
    env         \* the environment: which clients exist, how far they send steps

vars == <<self, last, observed, env>>

----------------------------------------------------------------------------
(* Program constants *)

NBD_SERVER_MAX_TRANSPORT_CONNECTIONS == 64
NBD_REASONABLE_NUMBER_OF_STEPS_TO_CATCHUP_FOR_JOINERS == 80
FirstBlobStreamOutChannel == 127
StepIdAllOnes == -1
FreedParticipantConnectionId == 256

(* Bounds of the model *)

NBS_WINDOW_SIZE == 6
MaxConnectionCount == 2
MaxTicks == 1
MaxTicksSteps == 5
SnapshotAfterSteps == 2
MaxTicksLockstep == 7
MaxTicksCatchup == 83
MaxStepsInDatagram == 2
MaxStepsInReply == 1
MaxNoRangesToSend == 1
StartStepId == 16

----------------------------------------------------------------------------
(* Unsigned 32-bit order on two's-complement patterns *)

ULess(a, b) == IF (a < 0) = (b < 0) THEN a < b ELSE b < 0

ULessEq(a, b) == a = b \/ ULess(a, b)

UMax(a, b) == IF ULess(a, b) THEN b ELSE a

Min(a, b) == IF a < b THEN a ELSE b

TransportSlots == 0 .. (NBD_SERVER_MAX_TRANSPORT_CONNECTIONS - 1)

PoolIndices == 0 .. (MaxConnectionCount - 1)

----------------------------------------------------------------------------
(* NbsSteps: a ring of consecutively numbered steps (spec 4.1) *)

StepsReInit(startStepId) ==
    [expectedReadId |-> startStepId, expectedWriteId |-> startStepId,
     stepsCount |-> 0, ids |-> <<>>]

StepsCanAppend(steps, stepId) ==
    stepId = steps.expectedWriteId /\ steps.stepsCount < NBS_WINDOW_SIZE

StepsAppend(steps, stepId) ==
    [steps EXCEPT !.expectedWriteId = @ + 1, !.stepsCount = @ + 1,
                  !.ids = Append(@, stepId)]

StepsCanDiscard(steps, n) == n <= steps.stepsCount

StepsDiscardCount(steps, n) ==
    [steps EXCEPT !.expectedReadId = @ + n, !.stepsCount = @ - n,
                  !.ids = SubSeq(@, n + 1, Len(@))]

----------------------------------------------------------------------------
(* NimbleServerTransportConnection *)

NoParticipantConnection == 0

NoTransportConnection == -1

\* Storage of a slot that transportConnectionInit has not yet run on
\* (nimbleServerInit sets only the first two fields; the rest is zeroed).
UnusedTransportConnection ==
    [isUsed |-> FALSE,
     assignedParticipantConnection |-> NoParticipantConnection,
     orderedDatagramInLogic |-> [hasReceivedInitialDatagram |-> FALSE],
     nextBlobStreamOutChannel |-> 0,
     debugCounter |-> 0,
     noRangesToSendCounter |-> 0,
     nextAuthoritativeStepIdToSend |-> 0,
     phase |-> "Idle",
     blobStreamOutClientRequestId |-> 0]

transportConnectionInit(tc) ==
    [tc EXCEPT !.orderedDatagramInLogic = [hasReceivedInitialDatagram |-> FALSE],
               !.nextBlobStreamOutChannel = FirstBlobStreamOutChannel,
               !.debugCounter = 0,
               !.isUsed = TRUE,
               !.noRangesToSendCounter = 0,
               !.nextAuthoritativeStepIdToSend = StepIdAllOnes,
               !.phase = "Idle",
               !.blobStreamOutClientRequestId = 0]

transportConnectionSetGameStateTickId(tc, lastAuthoritativeStateTickId) ==
    [tc EXCEPT !.phase = "InitialStateDetermined",
               !.nextAuthoritativeStepIdToSend = lastAuthoritativeStateTickId]

----------------------------------------------------------------------------
(* NimbleServerParticipantConnection and the pool of them *)

nbdParticipantConnectionReset(i) ==
    [id |-> i, isUsed |-> FALSE, steps |-> StepsReInit(0),
     transportConnectionId |-> NoTransportConnection,
     forcedStepInRowCounter |-> 0]

nbdParticipantConnectionInit(i, transportConnectionId, latestAuthoritativeStepId) ==
    [id |-> i, isUsed |-> TRUE, steps |-> StepsReInit(latestAuthoritativeStepId),
     transportConnectionId |-> transportConnectionId,
     forcedStepInRowCounter |-> 0]

nbdParticipantConnectionsReset == [i \in PoolIndices |-> nbdParticipantConnectionReset(i)]

\* Pool indices of the participant connections made for a transport slot.
ConnectionsOfTransport(connections, connectionIndex) ==
    {i \in PoolIndices : connections[i].transportConnectionId = connectionIndex}

\* The participant connection of a slot: pool index + 1, or 0 when there is none.
nbdParticipantConnectionsFindConnection(connections, connectionIndex) ==
    LET found == ConnectionsOfTransport(connections, connectionIndex)
    IN  IF found = {} THEN NoParticipantConnection
        ELSE 1 + CHOOSE i \in found : \A j \in found : i <= j

----------------------------------------------------------------------------
(* NimbleServerGame *)

nbdGameSetGameState(game, stepId, gameState) ==
    [game EXCEPT !.latestState = [stepId |-> stepId, state |-> gameState]]

nbdGameInit ==
    [authoritativeSteps |-> StepsReInit(0),
     latestState |-> [stepId |-> 0, state |-> "none"],
     debugIsFrozen |-> FALSE]

----------------------------------------------------------------------------
(* server.c: the lifecycle calls.  Each returns the new server and the     *)
(* call's return value.                                                    *)

\* slots: the slots of transportConnections[] that the model keeps the storage
\* of (those a client can address); the others never change.
nimbleServerInit(slots) ==
    [transportConnections |-> [i \in slots |-> UnusedTransportConnection],
     connections |-> nbdParticipantConnectionsReset,
     game |-> nbdGameInit,
     authoritativeStepsPerSecondStat |-> 0]

nimbleServerReInitWithGame(s, gameState, stepId) ==
    [s EXCEPT !.game = [nbdGameSetGameState(nbdGameInit, stepId, gameState)
                           EXCEPT !.authoritativeSteps = StepsReInit(stepId)],
              !.authoritativeStepsPerSecondStat = 0,
              !.connections = nbdParticipantConnectionsReset]

\* nimbleServerConnectionConnected without its check of isUsed.
nimbleServerConnectionConnectedUnchecked(s, connectionIndex) ==
    [self |-> [s EXCEPT !.transportConnections[connectionIndex] =
                  transportConnectionInit([@ EXCEPT !.isUsed = TRUE])],
     ret |-> 0]

nimbleServerConnectionConnected(s, connectionIndex) ==
    LET transportConnection == s.transportConnections[connectionIndex]
    IN  IF transportConnection.isUsed
        THEN [self |-> s, ret |-> -44]
        ELSE [self |-> [s EXCEPT !.transportConnections[connectionIndex] =
                            transportConnectionInit([transportConnection EXCEPT !.isUsed = TRUE])],
              ret |-> 0]

\* nimbleServerConnectionDisconnected without its check of isUsed.
nimbleServerConnectionDisconnectedUnchecked(s, connectionIndex) ==
    LET foundConnection ==
            nbdParticipantConnectionsFindConnection(s.connections, connectionIndex)
    IN  IF foundConnection = NoParticipantConnection
        THEN [self |-> s, ret |-> -2]
        ELSE [self |->
                [s EXCEPT !.connections[foundConnection - 1].id = FreedParticipantConnectionId,
                          !.connections[foundConnection - 1].isUsed = FALSE,
                          !.transportConnections[connectionIndex].orderedDatagramInLogic
                               .hasReceivedInitialDatagram = FALSE],
              ret |-> 0]

nimbleServerConnectionDisconnected(s, connectionIndex) ==
    LET foundConnection ==
            nbdParticipantConnectionsFindConnection(s.connections, connectionIndex)
    IN  IF foundConnection = NoParticipantConnection
        THEN [self |-> s, ret |-> -2]
        ELSE IF ~s.connections[foundConnection - 1].isUsed
        THEN [self |-> s, ret |-> -4]
        ELSE [self |->
                [s EXCEPT !.connections[foundConnection - 1].id = FreedParticipantConnectionId,
                          !.connections[foundConnection - 1].isUsed = FALSE,
                          !.transportConnections[connectionIndex].orderedDatagramInLogic
                               .hasReceivedInitialDatagram = FALSE],
              ret |-> 0]

\* int delta = uint32 - uint32; delta > (size_t) 80: the int is converted to
\* size_t, so a negative delta compares as a value of at least 2^63.
IntGreaterThanSizeT(i, n) == IF i < 0 THEN TRUE ELSE i > n

\* nimbleServerMustProvideGameState asking one step early.
nimbleServerMustProvideGameStateEarly(s) ==
    s.game.authoritativeSteps.expectedWriteId - s.game.latestState.stepId
        >= NBD_REASONABLE_NUMBER_OF_STEPS_TO_CATCHUP_FOR_JOINERS

nimbleServerMustProvideGameState(s) ==
    LET deltaTickCountSinceLastGameState ==
            s.game.authoritativeSteps.expectedWriteId - s.game.latestState.stepId
    IN  IntGreaterThanSizeT(deltaTickCountSinceLastGameState,
                            NBD_REASONABLE_NUMBER_OF_STEPS_TO_CATCHUP_FOR_JOINERS)

nimbleServerSetGameState(s, gameState, stepId) ==
    [s EXCEPT !.game = nbdGameSetGameState(s.game, stepId, gameState)]

----------------------------------------------------------------------------
(* Datagrams.  A datagram is [connectionId, cmd, waitingFor, firstStepId,   *)
(* stepCount, clientRequestId, sendFails]: the command byte, the fields of  *)
(* a GameStep request, the request id of a download request, and whether    *)
(* the transport fails to send the reply to it.                             *)

ErrNoParticipantConnection == -30
ErrStepGap == -31
ErrIncomingStepsFull == -32
ErrAuthoritativeStepsFull == -33
ErrNoFreeParticipantConnection == -34
ErrTransportSend == -35
ErrTransportReceive == -36

OrderedDatagramHeaderOctets == 2

\* The participant connection a transport connection feeds: pool index + 1,
\* or 0 when it has none in use.
ParticipantConnectionOf(s, connectionIndex) ==
    LET assigned == s.transportConnections[connectionIndex].assignedParticipantConnection
    IN  IF /\ assigned # NoParticipantConnection
           /\ s.connections[assigned - 1].isUsed
           /\ s.connections[assigned - 1].transportConnectionId = connectionIndex
        THEN assigned
        ELSE NoParticipantConnection

RECURSIVE StepsAppendRun(_, _)
\* Appends n consecutive steps at the write head, as far as the ring has room.
StepsAppendRun(steps, n) ==
    IF n = 0 \/ ~StepsCanAppend(steps, steps.expectedWriteId)
    THEN steps
    ELSE StepsAppendRun(StepsAppend(steps, steps.expectedWriteId), n - 1)

\* Ingest (spec 4.5 step 2): a gap fails, earlier duplicates are dropped, the
\* rest is appended; a full ring rejects.
nimbleServerHandleIncomingSteps(s, connectionIndex, dgram) ==
    LET pc == ParticipantConnectionOf(s, connectionIndex)
    IN  IF pc = NoParticipantConnection
        THEN [self |-> s, ret |-> ErrNoParticipantConnection]
        ELSE
        LET steps == s.connections[pc - 1].steps
            fresh == {id \in dgram.firstStepId .. (dgram.firstStepId + dgram.stepCount - 1) :
                         ULessEq(steps.expectedWriteId, id)}
            after == StepsAppendRun(steps, Cardinality(fresh))
            added == after.stepsCount - steps.stepsCount
        IN  IF ULess(steps.expectedWriteId, dgram.firstStepId)
            THEN [self |-> s, ret |-> ErrStepGap]
            ELSE [self |-> [s EXCEPT !.connections[pc - 1].steps = after],
                  ret |-> IF added < Cardinality(fresh) THEN ErrIncomingStepsFull ELSE added]

ActiveConnections(s) == {i \in PoolIndices : s.connections[i].isUsed}

HasStepAt(steps, stepId) == steps.stepsCount > 0 /\ steps.expectedReadId = stepId

\* Compose loop condition (spec 4.5 steps 3 and 4): every active participant
\* connection has a step for the next authoritative tick.
nimbleServerShouldCompose(s) ==
    /\ ActiveConnections(s) # {}
    /\ \A i \in ActiveConnections(s) :
           HasStepAt(s.connections[i].steps, s.game.authoritativeSteps.expectedWriteId)

RECURSIVE nimbleServerComposeLoop(_, _)
nimbleServerComposeLoop(s, composed) ==
    IF ~nimbleServerShouldCompose(s)
    THEN [self |-> s, ret |-> composed]
    ELSE
    LET popped == [s EXCEPT !.connections =
                       [i \in PoolIndices |->
                           IF s.connections[i].isUsed
                           THEN [s.connections[i] EXCEPT
                                    !.steps = StepsDiscardCount(@, 1),
                                    !.forcedStepInRowCounter = 0]
                           ELSE s.connections[i]]]
        auth == s.game.authoritativeSteps
    IN  IF ~StepsCanAppend(auth, auth.expectedWriteId)
        THEN [self |-> popped, ret |-> ErrAuthoritativeStepsFull]
        ELSE nimbleServerComposeLoop(
                 [popped EXCEPT !.game.authoritativeSteps =
                                    StepsAppend(auth, auth.expectedWriteId)],
                 composed + 1)

nimbleServerComposeAuthoritativeSteps(s) == nimbleServerComposeLoop(s, 0)

----------------------------------------------------------------------------
(* req_step.c *)

\* The number of steps the trim discards.
AuthoritativeToDrop(game) ==
    LET authoritativeStepCount == game.authoritativeSteps.stepsCount
        maxCapacity == NBS_WINDOW_SIZE \div 3
    IN  IF authoritativeStepCount > maxCapacity
        THEN authoritativeStepCount - maxCapacity
        ELSE 0

\* discardAuthoritativeStepsIfBufferGettingFull with half the window as its
\* limit.
discardAuthoritativeStepsIfBufferHalfFull(game) ==
    LET authoritativeStepCount == game.authoritativeSteps.stepsCount
        maxCapacity == NBS_WINDOW_SIZE \div 2
    IN  IF authoritativeStepCount > maxCapacity
        THEN [game EXCEPT !.authoritativeSteps =
                              StepsDiscardCount(@, authoritativeStepCount - maxCapacity)]
        ELSE game

\* discardAuthoritativeStepsIfBufferGettingFull never discarding.
discardNoAuthoritativeSteps(game) == game

\* discardAuthoritativeStepsIfBufferGettingFull dropping the newest steps.
discardNewestAuthoritativeSteps(game) ==
    LET authoritativeToDrop == AuthoritativeToDrop(game)
    IN  [game EXCEPT !.authoritativeSteps =
            [@ EXCEPT !.expectedWriteId = @ - authoritativeToDrop,
                      !.stepsCount = @ - authoritativeToDrop,
                      !.ids = SubSeq(@, 1, Len(@) - authoritativeToDrop)]]

discardAuthoritativeStepsIfBufferGettingFull(game) ==
    LET authoritativeToDrop == AuthoritativeToDrop(game)
    IN  IF authoritativeToDrop > 0 /\ StepsCanDiscard(game.authoritativeSteps, authoritativeToDrop)
        THEN [game EXCEPT !.authoritativeSteps = StepsDiscardCount(@, authoritativeToDrop)]
        ELSE game

\* The function's result once the steps are composed: the new server, the
\* advance count (or an error), and what was discarded and received on the way.
ComposedAuthoritativeSteps(trimmed, received, advanced) ==
    IF advanced.ret < 0
    THEN [self |-> advanced.self, ret |-> advanced.ret, trimmed |-> trimmed,
          received |-> received.ret, composeTried |-> TRUE]
    ELSE [self |-> [advanced.self EXCEPT
                       !.authoritativeStepsPerSecondStat = @ + advanced.ret],
          ret |-> advanced.ret, trimmed |-> trimmed,
          received |-> received.ret, composeTried |-> TRUE]

\* The function from the ingest on, were the debug flag of the game not read.
ReceivedIncomingStepsComposedWhenFrozen(trimmed, received) ==
    IF received.ret < 0
    THEN [self |-> received.self, ret |-> received.ret, trimmed |-> trimmed,
          received |-> 0, composeTried |-> FALSE]
    ELSE ComposedAuthoritativeSteps(trimmed, received,
             nimbleServerComposeAuthoritativeSteps(received.self))

\* The function from the ingest on.
ReceivedIncomingSteps(trimmed, received) ==
    IF received.ret < 0
    THEN [self |-> received.self, ret |-> received.ret, trimmed |-> trimmed,
          received |-> 0, composeTried |-> FALSE]
    ELSE IF received.self.game.debugIsFrozen
    THEN [self |-> received.self, ret |-> 0, trimmed |-> trimmed,
          received |-> received.ret, composeTried |-> FALSE]
    ELSE ComposedAuthoritativeSteps(trimmed, received,
             nimbleServerComposeAuthoritativeSteps(received.self))

readIncomingStepsAndCreateAuthoritativeSteps(s, connectionIndex, dgram) ==
    LET discarded == discardAuthoritativeStepsIfBufferGettingFull(s.game)
    IN  ReceivedIncomingSteps(
            s.game.authoritativeSteps.stepsCount - discarded.authoritativeSteps.stepsCount,
            nimbleServerHandleIncomingSteps([s EXCEPT !.game = discarded],
                                            connectionIndex, dgram))


\* Step-range sender (spec 4.6).  Returns the new server, the octets written
\* to the reply, and the range that was packed.  The diagnostic counter
\* noRangesToSendCounter is kept up to MaxNoRangesToSend.
nimbleServerSendStepRanges(s, connectionIndex, clientWaitingForStepId) ==
    LET tc == s.transportConnections[connectionIndex]
        auth == s.game.authoritativeSteps
        start == UMax(clientWaitingForStepId, tc.nextAuthoritativeStepIdToSend)
        available == IF ULess(start, auth.expectedWriteId)
                     THEN auth.expectedWriteId - start
                     ELSE 0
        count == Min(available, MaxStepsInReply)
    IN  IF ULess(clientWaitingForStepId, auth.expectedReadId)
        THEN [self |-> s, ret |-> 0, rangeStart |-> start, rangeCount |-> 0]
        ELSE IF count = 0
        THEN [self |-> [s EXCEPT !.transportConnections[connectionIndex]
                                      .noRangesToSendCounter = Min(@ + 1, MaxNoRangesToSend)],
              ret |-> 0, rangeStart |-> start, rangeCount |-> 0]
        ELSE [self |-> [s EXCEPT !.transportConnections[connectionIndex]
                                      .nextAuthoritativeStepIdToSend = start + count],
              ret |-> count, rangeStart |-> start, rangeCount |-> count]

NoStepEvent ==
    [trimmed |-> 0, received |-> 0, advanced |-> 0, composeTried |-> FALSE,
     rangeStart |-> 0, rangeCount |-> 0]

\* The request's result once the step ranges are written: the new server, the
\* result, the octets in the reply stream and the step event.
SentStepRanges(created, ranges) ==
    [self |-> ranges.self, ret |-> ranges.ret,
     pos |-> OrderedDatagramHeaderOctets + ranges.rangeCount,
     step |-> [NoStepEvent EXCEPT !.trimmed = created.trimmed,
                                  !.received = created.received,
                                  !.composeTried = created.composeTried,
                                  !.advanced = created.ret,
                                  !.rangeStart = ranges.rangeStart,
                                  !.rangeCount = ranges.rangeCount]]

\* CreatedAuthoritativeSteps sending from the step the client waits for,
\* whatever was sent before.
CreatedAuthoritativeStepsSentFromWaitingFor(created, connectionIndex, dgram) ==
    IF created.ret < 0
    THEN [self |-> created.self, ret |-> created.ret,
          pos |-> OrderedDatagramHeaderOctets,
          step |-> [NoStepEvent EXCEPT !.trimmed = created.trimmed,
                                       !.received = created.received,
                                       !.composeTried = created.composeTried]]
    ELSE SentStepRanges(created,
             nimbleServerSendStepRanges(
                 [created.self EXCEPT !.transportConnections[connectionIndex]
                                           .nextAuthoritativeStepIdToSend = dgram.waitingFor],
                 connectionIndex, dgram.waitingFor))

\* The request from the ingest and compose on.
CreatedAuthoritativeSteps(created, connectionIndex, dgram) ==
    IF created.ret < 0
    THEN [self |-> created.self, ret |-> created.ret,
          pos |-> OrderedDatagramHeaderOctets,
          step |-> [NoStepEvent EXCEPT !.trimmed = created.trimmed,
                                       !.received = created.received,
                                       !.composeTried = created.composeTried]]
    ELSE SentStepRanges(created,
             nimbleServerSendStepRanges(created.self, connectionIndex, dgram.waitingFor))

nimbleServerReqGameStep(s, connectionIndex, dgram) ==
    CreatedAuthoritativeSteps(
        readIncomingStepsAndCreateAuthoritativeSteps(s, connectionIndex, dgram),
        connectionIndex, dgram)

----------------------------------------------------------------------------
(* The other request handlers (spec 4.7) *)

FirstUnusedConnection(s) ==
    CHOOSE i \in PoolIndices :
        ~s.connections[i].isUsed /\ \A j \in PoolIndices : ~s.connections[j].isUsed => i <= j

\* JoinGameRequest: the first join of a slot makes its participant connection,
\* whose step ring starts at the authoritative write head.
nbdReqGameJoin(s, connectionIndex) ==
    IF ParticipantConnectionOf(s, connectionIndex) # NoParticipantConnection
    THEN [self |-> s, ret |-> 0, pos |-> OrderedDatagramHeaderOctets + 1]
    ELSE IF \A i \in PoolIndices : s.connections[i].isUsed
    THEN [self |-> s, ret |-> ErrNoFreeParticipantConnection,
          pos |-> OrderedDatagramHeaderOctets]
    ELSE
    LET i == FirstUnusedConnection(s)
    IN  [self |-> [s EXCEPT
                     !.connections[i] =
                         nbdParticipantConnectionInit(i, connectionIndex,
                             s.game.authoritativeSteps.expectedWriteId),
                     !.transportConnections[connectionIndex]
                          .assignedParticipantConnection = i + 1],
         ret |-> 0, pos |-> OrderedDatagramHeaderOctets + 1]

\* DownloadGameStateRequest: a blob stream of the snapshot starts for the
\* client's request, and the connection will be sent steps from the snapshot's
\* step id.  (Which channel the blob-stream layer takes is not modelled.)
nbdReqDownloadGameState(s, connectionIndex, dgram) ==
    LET tc == s.transportConnections[connectionIndex]
        started == [tc EXCEPT !.blobStreamOutClientRequestId = dgram.clientRequestId]
    IN  [self |-> [s EXCEPT !.transportConnections[connectionIndex] =
                       transportConnectionSetGameStateTickId(started,
                           s.game.latestState.stepId)],
         ret |-> 0, pos |-> OrderedDatagramHeaderOctets + 1]

\* DownloadGameStateStatus: the ack of blob-stream chunks.
nbdReqDownloadGameStateAck(s, connectionIndex) == [self |-> s, ret |-> 0]

----------------------------------------------------------------------------
(* server.c: nimbleServerFeed and the drain of the multitransport *)

NoFeedEvent ==
    [connectionIndex |-> -1, cmd |-> "none", ret |-> 0, outOfPool |-> FALSE,
     touched |-> FALSE, dispatched |-> FALSE, setTickId |-> FALSE,
     committed |-> FALSE, sent |-> 0, step |-> NoStepEvent]

\* The tail of feed, were a reply that holds only the header sent as well.
FeedReplyOfAnyLength(handled, event, sendFails) ==
    IF handled.ret < 0
    THEN [self |-> handled.self, ev |-> [event EXCEPT !.ret = handled.ret]]
    ELSE [self |-> handled.self,
          ev |-> [event EXCEPT !.committed = TRUE, !.sent = 1,
                               !.ret = IF sendFails THEN ErrTransportSend ELSE handled.pos]]

\* The tail of feed: drop the reply on an error or when it holds only the
\* header, else commit the ordered-out sequence and send.
FeedReply(handled, event, sendFails) ==
    IF handled.ret < 0
    THEN [self |-> handled.self, ev |-> [event EXCEPT !.ret = handled.ret]]
    ELSE IF handled.pos <= 2
    THEN [self |-> handled.self, ev |-> [event EXCEPT !.ret = 0]]
    ELSE [self |-> handled.self,
          ev |-> [event EXCEPT !.committed = TRUE, !.sent = 1,
                               !.ret = IF sendFails THEN ErrTransportSend ELSE handled.pos]]

\* The reply to a step request also holds what the request did to the steps.
GameStepReply(handled, event, sendFails) ==
    FeedReply(handled, [event EXCEPT !.step = handled.step], sendFails)

\* The chunk ack's result is returned as it is, without a reply of feed's own.
AckReply(acked, event) == [self |-> acked.self, ev |-> [event EXCEPT !.ret = acked.ret]]

\* A command feed does not know, were it an error of the feed.
UnknownCommandRejected(received, event) ==
    [self |-> received, ev |-> [event EXCEPT !.ret = -1]]

\* A command feed does not know is logged and dropped.
UnknownCommand(received, event) ==
    [self |-> received, ev |-> [event EXCEPT !.ret = 0]]

\* undefinedOutcome is what the call returns when it indexes the pool out of
\* its bounds, which the language leaves undefined.
nimbleServerFeed(s, connectionIndex, dgram, sendFails, undefinedOutcome) ==
    LET event == [NoFeedEvent EXCEPT !.connectionIndex = connectionIndex, !.cmd = dgram.cmd]
    IN  IF connectionIndex > 64
        THEN [self |-> s, ev |-> [event EXCEPT !.ret = -13]]
        ELSE IF connectionIndex \notin TransportSlots
        THEN [self |-> s, ev |-> [event EXCEPT !.ret = undefinedOutcome, !.outOfPool = TRUE,
                                               !.touched = TRUE]]
        ELSE
        LET received == [s EXCEPT !.transportConnections[connectionIndex]
                                       .orderedDatagramInLogic.hasReceivedInitialDatagram = TRUE]
            touched == [event EXCEPT !.touched = TRUE]
            dispatched == [touched EXCEPT !.dispatched = TRUE]
        IN  CASE dgram.cmd = "DownloadGameStateStatus" ->
                    AckReply(nbdReqDownloadGameStateAck(received, connectionIndex), dispatched)
              [] dgram.cmd = "GameStep" ->
                    GameStepReply(nimbleServerReqGameStep(received, connectionIndex, dgram),
                                  dispatched, sendFails)
              [] dgram.cmd = "JoinGameRequest" ->
                    FeedReply(nbdReqGameJoin(received, connectionIndex), dispatched, sendFails)
              [] dgram.cmd = "DownloadGameStateRequest" ->
                    FeedReply(nbdReqDownloadGameState(received, connectionIndex, dgram),
                              [dispatched EXCEPT !.setTickId = TRUE], sendFails)
              [] OTHER -> UnknownCommand(received, touched)

\* The drain's limit, were it one datagram more.
DrainLimitPlusOne == 32 + 1

DrainLimit == 32

NotObserved == [seen |-> FALSE, value |-> 0, setTickId |-> FALSE]

\* observed after a feed: a step-range reply shows the slot's send cursor, and
\* a download request is noted until the next such reply.
ObservedAfterFeed(obs, fed) ==
    IF fed.ev.step.rangeCount > 0
    THEN [obs EXCEPT ![fed.ev.connectionIndex] =
             [seen |-> TRUE,
              value |-> fed.self.transportConnections[fed.ev.connectionIndex]
                            .nextAuthoritativeStepIdToSend,
              setTickId |-> FALSE]]
    ELSE IF fed.ev.setTickId
    THEN [obs EXCEPT ![fed.ev.connectionIndex].setTickId = TRUE]
    ELSE obs

\* The drain after one datagram is fed: world is [self, observed, ret,
\* drainRet, fed, connected, queued, ev], with drainRet the drain's own return
\* value, connected the number of slots the drain has connected and queued the
\* number of datagrams the transport held.
DrainedDatagram(world, obs, fed) ==
    [world EXCEPT !.self = fed.self, !.observed = ObservedAfterFeed(obs, fed),
                  !.drainRet = fed.ev.ret, !.fed = @ + 1, !.ev = fed.ev]

\* The drain, were no slot connected by a datagram.
DidConnectNever(s, connectionId) == FALSE

\* A datagram of a slot that is not in use connects it.
DidConnectNow(s, connectionId) == ~s.transportConnections[connectionId].isUsed

RECURSIVE nimbleServerReadFromMultiTransport(_, _, _, _, _)
\* A feed that fails ends the drain.
NextDatagram(world, batch, i, tail, sendFails) ==
    IF world.drainRet < 0
    THEN world
    ELSE nimbleServerReadFromMultiTransport(world, batch, i + 1, tail, sendFails)

\* batch is what receiveFrom hands out, one datagram a call, and tail what it
\* returns once the batch is used up (0: nothing more, negative: a transport
\* error).
nimbleServerReadFromMultiTransport(world, batch, i, tail, sendFails) ==
    IF i > DrainLimit
    THEN [world EXCEPT !.drainRet = 0]
    ELSE IF i > Len(batch)
    THEN [world EXCEPT !.drainRet = tail]
    ELSE
    LET connectionId == batch[i].connectionId
        didConnectNow == DidConnectNow(world.self, connectionId)
        connected == IF didConnectNow
                     THEN nimbleServerConnectionConnected(world.self, connectionId).self
                     ELSE world.self
        obs == IF didConnectNow
               THEN [world.observed EXCEPT ![connectionId] = NotObserved]
               ELSE world.observed
        noted == IF didConnectNow
                 THEN [world EXCEPT !.connected = @ + 1]
                 ELSE world
    IN  NextDatagram(
            DrainedDatagram(noted, obs,
                nimbleServerFeed(connected, connectionId, batch[i], sendFails, 0)),
            batch, i, tail, sendFails)

\* The update ignores what the drain returns.
nimbleServerUpdate(world, batch, tail, sendFails) ==
    [nimbleServerReadFromMultiTransport(world, batch, 1, tail, sendFails) EXCEPT !.ret = 0]

----------------------------------------------------------------------------
(* The environment: the calls the host application and the clients make *)

\* Connection indices the host passes to the lifecycle calls and to feed.
LifecycleIndices == env.clients \cup {NBD_SERVER_MAX_TRANSPORT_CONNECTIONS}

FeedIndices == LifecycleIndices \cup {NBD_SERVER_MAX_TRANSPORT_CONNECTIONS + 1}

Snapshots == {"snapshot"}

RequestIds == {1}

\* The write head of the step ring a client of this slot sends predicted steps to.
ClientWriteHead(c) ==
    LET pc == IF c \in TransportSlots THEN ParticipantConnectionOf(self, c)
              ELSE NoParticipantConnection
    IN  IF pc = NoParticipantConnection
        THEN self.game.authoritativeSteps.expectedWriteId
        ELSE self.connections[pc - 1].steps.expectedWriteId

PlainDatagram(c, cmd) ==
    [connectionId |-> c, cmd |-> cmd, waitingFor |-> 0, firstStepId |-> 0,
     stepCount |-> 0, clientRequestId |-> 0]

\* The step id a client says it waits for: one it can no longer get, the oldest
\* or the newest the server holds.
WaitingFor(kind) ==
    CASE kind = "behind" -> self.game.authoritativeSteps.expectedReadId - 1
      [] kind = "oldest" -> self.game.authoritativeSteps.expectedReadId
      [] kind = "newest" -> self.game.authoritativeSteps.expectedWriteId

\* A client sends its predicted steps from its write head on (skew 0), repeats
\* its last one (-1) or skips one (1); no client sends a step past env.horizon.
GameStepDatagrams(c) ==
    {d \in {[PlainDatagram(c, "GameStep") EXCEPT !.waitingFor = WaitingFor(w),
                                                 !.firstStepId = ClientWriteHead(c) + f,
                                                 !.stepCount = n] :
               w \in env.waiting, f \in env.skew, n \in 1 .. MaxStepsInDatagram} :
        d.firstStepId + d.stepCount <= env.horizon}

AllDatagrams(c) ==
    GameStepDatagrams(c)
    \cup {PlainDatagram(c, cmd) : cmd \in {"JoinGameRequest", "DownloadGameStateStatus", "Unknown"}}
    \cup {[PlainDatagram(c, "DownloadGameStateRequest") EXCEPT !.clientRequestId = r] :
             r \in RequestIds}

\* The datagrams the clients of this environment send.
Datagrams(c) == {d \in AllDatagrams(c) : d.cmd \in env.cmds[c]}

\* The datagrams that arrive two to a drain: a join, an unknown command, and
\* the step requests of a client that is up to date or has skipped a step.
BatchDatagrams(c) ==
    {d \in Datagrams(c) :
        \/ d.cmd \in {"JoinGameRequest", "Unknown"}
        \/ /\ d.cmd = "GameStep"
           /\ d.stepCount = 1
           /\ d.waitingFor = self.game.authoritativeSteps.expectedWriteId
           /\ d.firstStepId = ClientWriteHead(c)}

\* The datagrams the host feeds directly: a client's, or for an index that is
\* no client's slot, a join request.
FeedDatagrams(c) ==
    IF c \in env.clients THEN Datagrams(c) ELSE {PlainDatagram(c, "JoinGameRequest")}

Drain(batch, tail, sendFails) == [batch |-> batch, tail |-> tail, sendFails |-> sendFails]

\* More join requests of one client than one drain reads.
Flood(c) == [i \in 1 .. DrainLimit + 1 |-> PlainDatagram(c, "JoinGameRequest")]

\* What one update finds in the transport: nothing, a transport error, one
\* datagram (whose reply the transport may fail to send), two, or a flood.
Drains ==
    {Drain(<<>>, tail, FALSE) : tail \in {0, ErrTransportReceive}}
    \cup {Drain(<<d>>, 0, sendFails) :
             d \in UNION {Datagrams(c) : c \in env.clients}, sendFails \in BOOLEAN}
    \cup {Drain(<<d1, d2>>, 0, FALSE) :
             d1 \in UNION {BatchDatagrams(c) : c \in env.clients},
             d2 \in UNION {BatchDatagrams(c) : c \in env.clients}}
    \cup {Drain(Flood(c), 0, FALSE) : c \in env.flood}

CountersInBounds(s) ==
    \A c \in env.clients :
        s.transportConnections[c].noRangesToSendCounter <= MaxNoRangesToSend

NoCall ==
    [op |-> "init", connectionIndex |-> -1, cmd |-> "none", ret |-> 0, drainRet |-> 0,
     fed |-> 0, connected |-> 0, queued |-> 0, outOfPool |-> FALSE, touched |-> FALSE,
     dispatched |-> FALSE, sent |-> 0]

\* The record of a call, kept when the environment traces the calls.
Called(op, connectionIndex, cmd, ret) ==
    IF env.trace
    THEN [NoCall EXCEPT !.op = op, !.connectionIndex = connectionIndex, !.cmd = cmd,
                        !.ret = ret]
    ELSE NoCall

\* The record of a call that fed a datagram: also what the feed did with it.
CalledFeed(op, ev, ret) ==
    IF env.trace
    THEN [Called(op, ev.connectionIndex, ev.cmd, ret)
             EXCEPT !.touched = ev.touched, !.dispatched = ev.dispatched, !.sent = ev.sent,
                    !.outOfPool = ev.outOfPool]
    ELSE NoCall

\* The send cursors seen at step-range replies, kept when the environment
\* monitors them.
Monitored(obs) == IF env.monitor THEN obs ELSE observed

----------------------------------------------------------------------------
(* Actions *)

ConnectionConnected(c) ==
    IF c \in TransportSlots
    THEN LET called == nimbleServerConnectionConnected(self, c)
         IN  /\ self' = called.self
             /\ last' = Called("connectionConnected", c, "none", called.ret)
             /\ observed' = IF called.ret = 0 THEN [observed EXCEPT ![c] = NotObserved]
                            ELSE observed
             /\ UNCHANGED env
    ELSE \E undefinedOutcome \in {-44, 0} :
             /\ last' = [Called("connectionConnected", c, "none", undefinedOutcome)
                            EXCEPT !.outOfPool = env.trace]
             /\ UNCHANGED <<self, observed, env>>

ConnectionDisconnected(c) ==
    LET called == nimbleServerConnectionDisconnected(self, c)
    IN  /\ self' = called.self
        /\ last' = Called("connectionDisconnected", c, "none", called.ret)
        /\ observed' = IF called.ret = 0 THEN [observed EXCEPT ![c] = NotObserved]
                       ELSE observed
        /\ UNCHANGED env

SetGameState(gameState, stepId) ==
    /\ self' = nimbleServerSetGameState(self, gameState, stepId)
    /\ last' = Called("setGameState", -1, "none", 0)
    /\ UNCHANGED <<observed, env>>

ReInitWithGame(gameState, stepId) ==
    /\ self' = nimbleServerReInitWithGame(self, gameState, stepId)
    /\ last' = Called("reInitWithGame", -1, "none", 0)
    /\ UNCHANGED <<observed, env>>

\* The host writes the debug flag of the game in place.
DebugFreeze(frozen) ==
    /\ self' = [self EXCEPT !.game.debugIsFrozen = frozen]
    /\ last' = Called("debugFreeze", -1, "none", 0)
    /\ UNCHANGED <<observed, env>>

Fed(c, dgram, fed) ==
    /\ CountersInBounds(fed.self)
    /\ self' = fed.self
    /\ observed' = Monitored(ObservedAfterFeed(observed, fed))
    /\ last' = CalledFeed("feed", fed.ev, fed.ev.ret)
    /\ UNCHANGED env

Feed(c, dgram, sendFails, undefinedOutcome) ==
    Fed(c, dgram, nimbleServerFeed(self, c, dgram, sendFails, undefinedOutcome))

Updated(updated) ==
    /\ CountersInBounds(updated.self)
    /\ self' = updated.self
    /\ observed' = Monitored(updated.observed)
    /\ last' = IF env.trace
               THEN [CalledFeed("update", updated.ev, updated.ret)
                        EXCEPT !.drainRet = updated.drainRet, !.fed = updated.fed,
                               !.connected = updated.connected,
                               !.queued = updated.queued]
               ELSE NoCall
    /\ UNCHANGED env

Update(batch, tail, sendFails) ==
    Updated(nimbleServerUpdate([self |-> self, observed |-> observed, ret |-> 0,
                                drainRet |-> 0, fed |-> 0, connected |-> 0,
                                queued |-> Len(batch), ev |-> NoFeedEvent],
                               batch, tail, sendFails))

Next ==
    \/ \E c \in LifecycleIndices : ConnectionConnected(c)
    \/ \E c \in LifecycleIndices : ConnectionDisconnected(c)
    \/ \E g \in Snapshots, ahead \in env.ahead :
           /\ env.snapshotAfter <= self.game.authoritativeSteps.expectedWriteId
                                       - self.game.latestState.stepId
           /\ SetGameState(g, self.game.authoritativeSteps.expectedWriteId + ahead)
    \/ \E g \in Snapshots : ReInitWithGame(g, StartStepId)
    \/ \E c \in FeedIndices :
       \E dgram \in FeedDatagrams(c),
          undefinedOutcome \in IF c \in TransportSlots THEN {0} ELSE {-13, -1, 0} :
           /\ c \in TransportSlots => self.transportConnections[c].isUsed
           /\ Feed(c, dgram, FALSE, undefinedOutcome)
    \/ \E drain \in Drains : Update(drain.batch, drain.tail, drain.sendFails)
    \/ \E frozen \in env.freeze : DebugFreeze(frozen)

InitWith(clients, ticks, cmds, waiting, skew, snapshotAfter, ahead, freeze, flood, trace, monitor) ==
    /\ self = nimbleServerReInitWithGame(nimbleServerInit(clients), "snapshot", StartStepId)
    /\ last = NoCall
    /\ observed = [c \in clients |-> NotObserved]
    /\ env = [clients |-> clients, horizon |-> StartStepId + ticks, cmds |-> cmds,
              waiting |-> waiting, skew |-> skew, snapshotAfter |-> snapshotAfter,
              ahead |-> ahead, freeze |-> freeze, flood |-> flood,
              trace |-> trace, monitor |-> monitor]

Commands ==
    {"GameStep", "JoinGameRequest", "DownloadGameStateRequest", "DownloadGameStateStatus",
     "Unknown"}

\* The life cycle of two slots, with the calls traced: the client of slot 0
\* sends any request, and a client on a slot past the configured capacity joins.
Init == InitWith({0, MaxConnectionCount},
                 MaxTicks,
                 [c \in {0, MaxConnectionCount} |->
                     IF c = 0 THEN Commands ELSE {"JoinGameRequest"}],
                 {"newest"}, {0}, 0, {0}, {FALSE}, {}, TRUE, FALSE)

Spec == Init /\ [][Next]_vars

\* One client that sends any request in any order; its send cursor is monitored.
InitSteps == InitWith({0}, MaxTicksSteps, [c \in {0} |-> Commands],
                      {"behind", "oldest", "newest"},
                      {-1, 0, 1}, SnapshotAfterSteps, {0}, BOOLEAN, {}, FALSE, TRUE)

SpecSteps == InitSteps /\ [][Next]_vars

\* Two clients that send their steps in order and wait for the newest step;
\* the host sets the game state late in the game.
InitLockstep == InitWith({0, MaxConnectionCount}, MaxTicksLockstep,
                         [c \in {0, MaxConnectionCount} |-> {"JoinGameRequest", "GameStep"}],
                         {"newest"}, {0}, MaxTicksLockstep - 1,
                         {0}, {FALSE}, {}, FALSE, FALSE)

SpecLockstep == InitLockstep /\ [][Next]_vars

\* One client over a long game, whose host sets the game state when the server
\* says it must.
InitCatchup == InitWith({0}, MaxTicksCatchup,
                        [c \in {0} |-> {"JoinGameRequest", "GameStep", "Unknown"}],
                        {"newest"}, {0},
                        NBD_REASONABLE_NUMBER_OF_STEPS_TO_CATCHUP_FOR_JOINERS + 1,
                        {0}, {FALSE}, {}, FALSE, FALSE)

SpecCatchup == InitCatchup /\ [][Next]_vars

\* One client that sends any request and may flood the transport, with the
\* calls traced.
InitDrain == InitWith({0}, MaxTicks, [c \in {0} |-> Commands],
                      {"newest"}, {0}, 0, {0}, {FALSE}, {0}, TRUE, FALSE)

SpecDrain == InitDrain /\ [][Next]_vars

\* One client that sends any request, and a host that also sets a game state
\* whose step id is one past the write head; the calls are traced.
InitSnapshot == InitWith({0}, MaxTicks, [c \in {0} |-> Commands],
                         {"newest"}, {0}, 0, {0, 1}, {FALSE}, {}, TRUE, FALSE)

SpecSnapshot == InitSnapshot /\ [][Next]_vars

----------------------------------------------------------------------------
(* The lifecycle of a transport slot (Spec) *)

\* C1: a slot is in use only if it was connected and not disconnected since;
\* stated for the call that has just returned: after connectionDisconnected
\* returns 0 for a slot, the slot is no longer in use.
C1_DisconnectedSlotNotInUse ==
    (last.op = "connectionDisconnected" /\ last.ret = 0)
        => ~self.transportConnections[last.connectionIndex].isUsed

\* C2: after connectionDisconnected returns 0 for a slot, its transport
\* connection is in phase WaitingForReconnect and has not received an initial
\* datagram.
C2_DisconnectedSlotWaitsForReconnect ==
    (last.op = "connectionDisconnected" /\ last.ret = 0)
        => /\ self.transportConnections[last.connectionIndex].phase = "WaitingForReconnect"
           /\ ~self.transportConnections[last.connectionIndex]
                    .orderedDatagramInLogic.hasReceivedInitialDatagram

\* C3: feed rejects every datagram of a connection index at or past the
\* configured capacity, with -13 from index 64 on, without reading or writing
\* a transport connection, dispatching a command or sending a reply.  Stated
\* for the feed that has just returned.
C3_FeedValidatesConnectionIndex ==
    (last.op = "feed" /\ last.connectionIndex >= MaxConnectionCount)
        => /\ ~last.touched
           /\ ~last.dispatched
           /\ last.sent = 0
           /\ last.ret < 0
           /\ last.connectionIndex >= NBD_SERVER_MAX_TRANSPORT_CONNECTIONS => last.ret = -13

ConnectedAsClaimed(s, c, called) ==
    IF s.transportConnections[c].isUsed
    THEN called.ret = -44 /\ called.self = s
    ELSE called.ret = 0 /\ called.self.transportConnections[c].isUsed

\* C4: connectionConnected on a slot in use returns -44 and changes nothing;
\* on a slot not in use it returns 0 (and the slot is then in use).  Of every
\* reachable state, and of the call that has just returned.
C4_DoubleConnectRejected ==
    /\ \A c \in env.clients :
           ConnectedAsClaimed(self, c, nimbleServerConnectionConnected(self, c))
    /\ (last.op = "connectionConnected" /\ last.connectionIndex \in env.clients)
           => /\ last.ret \in {-44, 0}
              /\ self.transportConnections[last.connectionIndex].isUsed
              /\ last.ret = 0 =>
                     self.transportConnections[last.connectionIndex] =
                         transportConnectionInit(self.transportConnections[last.connectionIndex])

\* A second connect of a slot that had set up a game-state download was
\* refused, and the slot still is where the download put it.
C4_Witness ==
    /\ last.op = "connectionConnected"
    /\ last.ret = -44
    /\ last.connectionIndex \in env.clients
    /\ self.transportConnections[last.connectionIndex].phase = "InitialStateDetermined"

DisconnectedAsClaimed(s, c, connections, called) ==
    IF connections = {}
    THEN called.ret = -2 /\ called.self = s
    ELSE IF \A i \in connections : ~s.connections[i].isUsed
    THEN called.ret = -4 /\ called.self = s
    ELSE /\ called.ret = 0
         /\ \A i \in connections :
                /\ ~called.self.connections[i].isUsed
                /\ s.connections[i].isUsed =>
                       called.self.connections[i].id = FreedParticipantConnectionId
         /\ nimbleServerConnectionDisconnected(called.self, c).ret = -4

\* C5: connectionDisconnected returns -2 for a slot without a participant
\* connection and -4 for one whose participant connection is freed, changing
\* nothing; for a joined slot it returns 0 and frees the participant
\* connection (id 0x100, not in use), and disconnecting again returns -4.
C5_DisconnectResults ==
    \A c \in LifecycleIndices :
        DisconnectedAsClaimed(self, c, ConnectionsOfTransport(self.connections, c),
                              nimbleServerConnectionDisconnected(self, c))

\* A slot was disconnected a second time.
C5_Witness ==
    /\ last.op = "connectionDisconnected"
    /\ last.ret = -4
    /\ \E i \in ConnectionsOfTransport(self.connections, last.connectionIndex) :
           self.connections[i].id = FreedParticipantConnectionId

----------------------------------------------------------------------------
(* When the host must provide a game state (SpecCatchup) *)

StepsSinceLastGameState(s) ==
    s.game.authoritativeSteps.expectedWriteId - s.game.latestState.stepId

\* C6: with the write head at or after the snapshot's step id,
\* mustProvideGameState is true exactly when more than 80 authoritative steps
\* were produced since the snapshot (false at 80, true at 81), and false right
\* after setGameState with the current write head.
C6_MustProvideGameStateAfter80 ==
    ULessEq(self.game.latestState.stepId, self.game.authoritativeSteps.expectedWriteId)
        => /\ nimbleServerMustProvideGameState(self) <=> StepsSinceLastGameState(self) > 80
           /\ StepsSinceLastGameState(self) = 80 => ~nimbleServerMustProvideGameState(self)
           /\ StepsSinceLastGameState(self) = 81 => nimbleServerMustProvideGameState(self)
           /\ \A g \in Snapshots :
                  ~nimbleServerMustProvideGameState(
                       nimbleServerSetGameState(self, g,
                           self.game.authoritativeSteps.expectedWriteId))

\* 81 steps were produced since the snapshot, and the server asks for a new one.
C6_Witness ==
    /\ StepsSinceLastGameState(self) = 81
    /\ nimbleServerMustProvideGameState(self)

----------------------------------------------------------------------------
(* The authoritative step ring (SpecSteps, SpecLockstep) *)

MaxAuthoritativeSteps == NBS_WINDOW_SIZE \div 3

AuthoritativeToTrim(steps) ==
    IF steps.stepsCount > MaxAuthoritativeSteps
    THEN steps.stepsCount - MaxAuthoritativeSteps
    ELSE 0

TrimmedAsClaimed(steps, after) ==
    IF steps.stepsCount > MaxAuthoritativeSteps
    THEN /\ after.stepsCount = MaxAuthoritativeSteps
         /\ after.expectedReadId = steps.expectedReadId + AuthoritativeToTrim(steps)
         /\ after.expectedWriteId = steps.expectedWriteId
         /\ after.ids = SubSeq(steps.ids, AuthoritativeToTrim(steps) + 1, Len(steps.ids))
    ELSE after = steps

\* What handling a step request leaves of a trim that ran before its ingest
\* and compose, neither of which moves the read head.
HandledAfterTrim(steps, created) ==
    /\ created.trimmed = AuthoritativeToTrim(steps)
    /\ created.self.game.authoritativeSteps.expectedReadId =
           steps.expectedReadId + AuthoritativeToTrim(steps)

\* C7: the trim discards the oldest steps beyond NBS_WINDOW_SIZE/3 (the read
\* head advances by their number, the write head stays) and leaves a smaller
\* ring alone; it runs first in the handling of every step request.
C7_BackpressureTrim ==
    /\ TrimmedAsClaimed(self.game.authoritativeSteps,
                        discardAuthoritativeStepsIfBufferGettingFull(self.game)
                            .authoritativeSteps)
    /\ \A c \in env.clients : \A dgram \in GameStepDatagrams(c) :
           HandledAfterTrim(self.game.authoritativeSteps,
               readIncomingStepsAndCreateAuthoritativeSteps(self, c, dgram))

\* The ring is over its limit, and has been trimmed before.
C7_Witness ==
    /\ self.game.authoritativeSteps.stepsCount > MaxAuthoritativeSteps
    /\ self.game.authoritativeSteps.expectedReadId > StartStepId

ComposedWithinCapacity(created) ==
    /\ created.ret # ErrAuthoritativeStepsFull
    /\ created.ret >= 0 =>
           created.self.game.authoritativeSteps.stepsCount
               <= MaxAuthoritativeSteps + created.ret

ComposedOrRingFull(steps, created) ==
    /\ created.ret >= 0 =>
           created.self.game.authoritativeSteps.stepsCount
               = Min(steps.stepsCount, MaxAuthoritativeSteps) + created.ret
    /\ created.ret = ErrAuthoritativeStepsFull =>
           created.self.game.authoritativeSteps.stepsCount = NBS_WINDOW_SIZE
    /\ created.self.game.authoritativeSteps.stepsCount <= NBS_WINDOW_SIZE

RingIsContiguous(steps) ==
    /\ ULessEq(steps.expectedReadId, steps.expectedWriteId)
    /\ steps.expectedWriteId - steps.expectedReadId = steps.stepsCount
    /\ Len(steps.ids) = steps.stepsCount
    /\ \A k \in 1 .. Len(steps.ids) : steps.ids[k] = steps.expectedReadId + (k - 1)

\* What the handling of a step request does to the ring: the read head
\* advances by what the trim discarded and the write head by what was composed.
RingAfterHandling(steps, created) ==
    /\ created.self.game.authoritativeSteps.expectedReadId
           = steps.expectedReadId + created.trimmed
    /\ created.ret >= 0 =>
           created.self.game.authoritativeSteps.expectedWriteId
               = steps.expectedWriteId + created.ret

\* A request that is no step request leaves the ring as it is.
RingAfterOtherRequest(steps, fed) == fed.self.game.authoritativeSteps = steps

RingAdvances(steps, after) ==
    /\ ULessEq(steps.expectedReadId, after.expectedReadId)
    /\ ULessEq(steps.expectedWriteId, after.expectedWriteId)
    /\ \A k \in 1 .. Len(after.ids) :
           ULess(after.ids[k], steps.expectedWriteId)
               => \E j \in 1 .. Len(steps.ids) : steps.ids[j] = after.ids[k]

----------------------------------------------------------------------------
(* The send cursor of a transport connection (SpecSteps) *)

\* C10 as claimed: between the connect and the disconnect of a slot, the
\* nextAuthoritativeStepIdToSend seen at successive step-range replies never
\* decreases.
C10_SendCursorNeverDecreases ==
    [][\A c \in env.clients :
          (observed[c].seen /\ observed'[c].seen)
              => ULessEq(observed[c].value, observed'[c].value)]_vars

\* C10 as amended: it never decreases from one step-range reply to the next
\* unless a DownloadGameStateRequest came in between, which sets it to the
\* step id of the latest game state.
C10_SendCursorDecreasesOnlyByDownload ==
    [][\A c \in env.clients :
          (observed[c].seen /\ observed'[c].seen /\ ~observed[c].setTickId)
              => ULessEq(observed[c].value, observed'[c].value)]_vars

\* Two step-range replies in a row, with no download request since.
C10_Witness ==
    \E c \in env.clients :
        /\ observed[c].seen
        /\ ~observed[c].setTickId
        /\ ULessEq(self.game.latestState.stepId + 2, observed[c].value)

----------------------------------------------------------------------------
(* Frozen games *)

\* The steps of a datagram the ring of a connection does not hold yet.
FreshSteps(steps, dgram) ==
    {id \in dgram.firstStepId .. (dgram.firstStepId + dgram.stepCount - 1) :
        ULessEq(steps.expectedWriteId, id)}

\* The number of steps a reply packs for a client: those from the later of
\* the step it waits for and the send cursor up to the write head, none when
\* it waits for a step before the read head.
StepsToSend(auth, cursor, waitingFor) ==
    IF ULess(waitingFor, auth.expectedReadId)
       \/ ~ULess(UMax(waitingFor, cursor), auth.expectedWriteId)
    THEN 0
    ELSE Min(auth.expectedWriteId - UMax(waitingFor, cursor), MaxStepsInReply)

\* A step request handled by a frozen game: no step is composed, the trim has
\* run, the fresh steps of the datagram are in the ring of the connection, and
\* the reply holds the step range.
FrozenAsClaimed(s, pc, tc, dgram, handled) ==
    /\ handled.self.game.authoritativeSteps.expectedWriteId =
           s.game.authoritativeSteps.expectedWriteId
    /\ handled.self.authoritativeStepsPerSecondStat = s.authoritativeStepsPerSecondStat
    /\ handled.step.advanced = 0
    /\ handled.step.trimmed = AuthoritativeToTrim(s.game.authoritativeSteps)
    /\ handled.self.game.authoritativeSteps.stepsCount =
           s.game.authoritativeSteps.stepsCount - AuthoritativeToTrim(s.game.authoritativeSteps)
    /\ handled.ret >= 0 =>
           /\ handled.step.received = Cardinality(FreshSteps(s.connections[pc - 1].steps, dgram))
           /\ handled.self.connections[pc - 1].steps.expectedWriteId =
                  s.connections[pc - 1].steps.expectedWriteId + handled.step.received
           /\ handled.step.rangeCount =
                  StepsToSend(handled.self.game.authoritativeSteps,
                              tc.nextAuthoritativeStepIdToSend, dgram.waitingFor)
           /\ handled.pos = OrderedDatagramHeaderOctets + handled.step.rangeCount

\* C11: while the game is frozen, handling a step request appends no
\* authoritative step (the write head and the per-second statistic stay), while
\* the trim, the ingest of the predicted steps and the step-range reply run.
C11_FrozenGameSkipsCompose ==
    /\ [](self.game.debugIsFrozen =>
            \A c \in env.clients : \A dgram \in GameStepDatagrams(c) :
                FrozenAsClaimed(self, ParticipantConnectionOf(self, c),
                                self.transportConnections[c], dgram,
                                nimbleServerReqGameStep(self, c, dgram)))
    /\ [][self.game.debugIsFrozen /\ self'.game.debugIsFrozen =>
             /\ self'.game.authoritativeSteps.expectedWriteId =
                    self.game.authoritativeSteps.expectedWriteId
             /\ self'.authoritativeStepsPerSecondStat =
                    self.authoritativeStepsPerSecondStat]_vars

\* A frozen game holds ingested steps of its one client that were not
\* composed, and a further request is ingested and answered with steps.
FrozenAndAnswered(handled) ==
    /\ handled.step.received > 0
    /\ handled.step.rangeCount > 0

C11_Witness ==
    /\ self.game.debugIsFrozen
    /\ \E i \in PoolIndices :
           self.connections[i].isUsed /\ self.connections[i].steps.stepsCount > 0
    /\ \E c \in env.clients : \E dgram \in GameStepDatagrams(c) :
           FrozenAndAnswered(nimbleServerReqGameStep(self, c, dgram))
----------------------------------------------------------------------------
(* The reply of feed *)

RepliedCommands == {"GameStep", "JoinGameRequest", "DownloadGameStateRequest"}

\* The handler feed dispatches a datagram of RepliedCommands to.
HandlerOf(s, c, dgram) ==
    CASE dgram.cmd = "GameStep" -> nimbleServerReqGameStep(s, c, dgram)
      [] dgram.cmd = "JoinGameRequest" -> nbdReqGameJoin(s, c)
      [] dgram.cmd = "DownloadGameStateRequest" -> nbdReqDownloadGameState(s, c, dgram)

\* What feed does with the reply of a handler.
RepliedAsClaimed(ret, pos, ev) ==
    /\ ev.committed <=> (ret >= 0 /\ pos > 2)
    /\ ev.sent = IF ret >= 0 /\ pos > 2 THEN 1 ELSE 0
    /\ ret < 0 => ev.ret = ret
    /\ (ret >= 0 /\ pos <= 2) => ev.ret = 0

HandledAsClaimed(handled, fed) == RepliedAsClaimed(handled.ret, handled.pos, fed.ev)

\* C12: for a GameStep, JoinGameRequest or DownloadGameStateRequest datagram
\* the ordered-out sequence is committed and one reply is sent exactly when the
\* handler did not fail and the reply holds more than 2 octets; on an error of
\* the handler feed returns the error, and on a shorter reply it returns 0.
C12_ReplySentIffHandledAndNonTrivial ==
    \A c \in env.clients : \A dgram \in FeedDatagrams(c) : \A sendFails \in BOOLEAN :
        (self.transportConnections[c].isUsed /\ dgram.cmd \in RepliedCommands) =>
            HandledAsClaimed(
                HandlerOf([self EXCEPT !.transportConnections[c].orderedDatagramInLogic
                                            .hasReceivedInitialDatagram = TRUE], c, dgram),
                nimbleServerFeed(self, c, dgram, sendFails, 0))

\* A step request has just failed without a reply, and of the requests the
\* client can send now one is answered.
C12_Witness ==
    /\ last.op = "feed" /\ last.cmd = "GameStep" /\ last.ret < 0 /\ last.sent = 0
    /\ \E c \in env.clients : \E dgram \in FeedDatagrams(c) :
           /\ self.transportConnections[c].isUsed
           /\ dgram.cmd \in RepliedCommands
           /\ nimbleServerFeed(self, c, dgram, FALSE, 0).ev.sent = 1
----------------------------------------------------------------------------
(* Unknown commands *)

\* A feed that returned 0 without a reply and left the game, the participant
\* connections and the phase and send cursor of the connection alone.
DroppedAsClaimed(s, c, fed) ==
    /\ fed.ev.ret = 0
    /\ fed.ev.sent = 0
    /\ ~fed.ev.committed
    /\ fed.self.game = s.game
    /\ fed.self.connections = s.connections
    /\ fed.self.transportConnections[c].phase = s.transportConnections[c].phase
    /\ fed.self.transportConnections[c].nextAuthoritativeStepIdToSend =
           s.transportConnections[c].nextAuthoritativeStepIdToSend

\* C13: a datagram with an unknown command makes feed return 0 without a
\* reply or a commit, and leaves the game, the participant connections and the
\* connection's phase and send cursor as they were.
C13_UnknownCommandDropped ==
    /\ \A c \in env.clients : \A dgram \in FeedDatagrams(c) : \A sendFails \in BOOLEAN :
           (self.transportConnections[c].isUsed /\ dgram.cmd = "Unknown") =>
               DroppedAsClaimed(self, c, nimbleServerFeed(self, c, dgram, sendFails, 0))
    /\ (last.op = "feed" /\ last.cmd = "Unknown" /\ last.connectionIndex \in env.clients) =>
           (last.ret = 0 /\ last.sent = 0 /\ ~last.dispatched)

\* An unknown command was fed to a connection that has joined and has been
\* sent steps.
C13_Witness ==
    /\ last.op = "feed" /\ last.cmd = "Unknown" /\ last.connectionIndex \in env.clients
    /\ \E i \in PoolIndices : self.connections[i].isUsed
    /\ \E c \in env.clients :
           /\ self.transportConnections[c].isUsed
           /\ self.transportConnections[c].nextAuthoritativeStepIdToSend # StepIdAllOnes
----------------------------------------------------------------------------
(* The drain of one update *)

MaxDatagramsPerUpdate == 32

\* The update of the server as it is over what the transport holds.
UpdateOf(batch, tail, sendFails) ==
    nimbleServerUpdate([self |-> self, observed |-> observed, ret |-> 0,
                        drainRet |-> 0, fed |-> 0, connected |-> 0,
                        queued |-> Len(batch), ev |-> NoFeedEvent],
                       batch, tail, sendFails)

\* An update that fed at most the batch and at most 32 datagrams.
DrainedWithinLimit(batch, updated) ==
    /\ updated.fed <= Len(batch)
    /\ updated.fed <= MaxDatagramsPerUpdate
    /\ (Len(batch) > MaxDatagramsPerUpdate /\ updated.drainRet >= 0) =>
           updated.fed = MaxDatagramsPerUpdate

\* The datagrams of a batch one update can read.
FirstDatagrams(batch) ==
    SubSeq(batch, 1, Min(Len(batch), MaxDatagramsPerUpdate))

\* Two updates that did the same to the server and returned the same.
SameUpdate(updated, other) ==
    /\ updated.self = other.self
    /\ updated.ret = other.ret
    /\ updated.fed = other.fed
    /\ updated.connected = other.connected
    /\ updated.ev = other.ev

\* C14: an update ends after feeding at most 32 datagrams and no more than
\* receiveFrom handed out before it returned 0; what a longer queue holds past
\* the 32 is not read, so that it changes nothing of the update.
C14_UpdateFeedsAtMost32 ==
    /\ \A drain \in Drains :
           /\ DrainedWithinLimit(drain.batch,
                                 UpdateOf(drain.batch, drain.tail, drain.sendFails))
           /\ Len(drain.batch) > MaxDatagramsPerUpdate =>
                  SameUpdate(UpdateOf(drain.batch, drain.tail, drain.sendFails),
                             UpdateOf(FirstDatagrams(drain.batch), drain.tail,
                                      drain.sendFails))
    /\ last.op = "update" => last.fed <= MaxDatagramsPerUpdate

\* An update has fed 32 datagrams of a longer queue.
C14_Witness ==
    /\ last.op = "update"
    /\ last.fed = MaxDatagramsPerUpdate
    /\ \E drain \in Drains : Len(drain.batch) > MaxDatagramsPerUpdate
----------------------------------------------------------------------------
(* The implicit connect of the drain *)

\* An update over one datagram: it did what the feed of the datagram does,
\* to the server as it was when the slot was in use, and else to the server
\* after nimbleServerConnectionConnected.
ImplicitAsClaimed(isUsed, updated, fedAsIs, fedConnected) ==
    IF isUsed
    THEN /\ updated.connected = 0
         /\ updated.self = fedAsIs.self
         /\ updated.ev = fedAsIs.ev
    ELSE /\ updated.connected = 1
         /\ updated.self = fedConnected.self
         /\ updated.ev = fedConnected.ev

\* C15: a datagram the drain reads for a slot that is not in use connects the
\* slot as nimbleServerConnectionConnected does before it is dispatched, and a
\* datagram for a slot in use never initialises the slot again.
C15_DrainConnectsUnusedSlot ==
    /\ \A c \in env.clients : \A dgram \in Datagrams(c) : \A sendFails \in BOOLEAN :
           ImplicitAsClaimed(self.transportConnections[c].isUsed,
               UpdateOf(<<dgram>>, 0, sendFails),
               nimbleServerFeed(self, c, dgram, sendFails, 0),
               nimbleServerFeed(nimbleServerConnectionConnected(self, c).self,
                                c, dgram, sendFails, 0))
    /\ last.op = "update" =>
           /\ last.connected <= last.fed
           /\ last.connected <= Cardinality(env.clients)

\* An update has connected a slot by its join request and has then fed a
\* second datagram of the slot, which is still joined.
C15_Witness ==
    /\ last.op = "update" /\ last.connected = 1 /\ last.fed = 2
    /\ last.connectionIndex \in env.clients
    /\ last.cmd # "JoinGameRequest"
    /\ self.transportConnections[last.connectionIndex].assignedParticipantConnection
           # NoParticipantConnection
----------------------------------------------------------------------------
(* Errors in the drain *)

\* C16: an error of the server in handling one datagram of an update drops
\* only the reply to that datagram, and the drain goes on to the next one: an
\* update feeds every datagram the transport held, up to 32.
C16_DrainContinuesAfterError ==
    last.op = "update" => last.fed = Min(last.queued, MaxDatagramsPerUpdate)

\* C17: an update whose drain met an error of the transport (receiveFrom or
\* send returned a negative value) returns that value, not 0.
C17_UpdateReturnsTransportError ==
    (last.op = "update" /\ last.drainRet \in {ErrTransportReceive, ErrTransportSend}) =>
        last.ret = last.drainRet
----------------------------------------------------------------------------
(* The server after nimbleServerReInitWithGame *)

\* A server with an empty ring at stepId, the snapshot (gameState, stepId), no
\* game state to provide and no connection left.
ReInitAsClaimed(s, gameState, stepId) ==
    /\ s.game.authoritativeSteps.stepsCount = 0
    /\ s.game.authoritativeSteps.expectedReadId = stepId
    /\ s.game.authoritativeSteps.expectedWriteId = stepId
    /\ s.game.latestState = [stepId |-> stepId, state |-> gameState]
    /\ ~nimbleServerMustProvideGameState(s)
    /\ \A i \in PoolIndices : ~s.connections[i].isUsed
    /\ \A c \in env.clients : ~s.transportConnections[c].isUsed

\* C18: after nimbleServerReInitWithGame the ring is empty at the step id, the
\* snapshot is the one passed, nimbleServerMustProvideGameState is false, and no
\* participant connection and no transport slot is in use.
C18_ReInitLeavesNoConnections ==
    last.op = "reInitWithGame" =>
        \E gameState \in Snapshots : ReInitAsClaimed(self, gameState, StartStepId)
----------------------------------------------------------------------------
(* Step traffic and the phase of the connection *)

\* The phases in which no step traffic is legal.
PhasesWithoutSteps == {"Idle", "WaitingForReconnect"}

\* A feed of a step request on slot c that ingested nothing, left the
\* authoritative ring alone and sent no reply.
StepRequestIgnored(c) ==
    /\ self'.connections = self.connections
    /\ self'.game.authoritativeSteps = self.game.authoritativeSteps
    /\ self'.transportConnections[c].nextAuthoritativeStepIdToSend =
           self.transportConnections[c].nextAuthoritativeStepIdToSend
    /\ last'.sent = 0

\* C19: a step request fed on a connection in phase Idle or
\* WaitingForReconnect ingests no predicted step, does not advance the
\* authoritative ring and is not answered with a step range.
C19_NoStepTrafficBeforeStateDetermined ==
    [][\A c \in env.clients :
           (/\ last'.op = "feed" /\ last'.cmd = "GameStep" /\ last'.connectionIndex = c
            /\ self.transportConnections[c].isUsed
            /\ self.transportConnections[c].phase \in PhasesWithoutSteps)
           => StepRequestIgnored(c)]_vars
----------------------------------------------------------------------------
(* The bounds of transportConnections[] *)

\* C20: no call reads or writes transportConnections[] outside its 64 slots;
\* the index is validated before the first access.
C20_TransportSlotsIndexedInPool == ~last.outOfPool
----------------------------------------------------------------------------
(* The game state ahead of the write head *)

\* C21: nimbleServerMustProvideGameState is false whenever the step id of the
\* stored game state is at or ahead of the write head of the authoritative
\* steps: a zero or negative distance never asks for a game state.
C21_NoGameStateRequiredWhenSnapshotAhead ==
    ULessEq(self.game.authoritativeSteps.expectedWriteId, self.game.latestState.stepId)
        => ~nimbleServerMustProvideGameState(self)
====
